---- MODULE Spec2Model ----
(***************************************************************************)
(* Model of the TypeScript Pinata uploader (typescript/src/index.ts):      *)
(* PinataUploader.uploadDirectoryWithRetry (retry loop, Promise.race of    *)
(* the upload against the timeout timer) and                               *)
(* BatchProcessor.processBatchCollection (validate, upload images,         *)
(* generate metadata, upload one or two metadata folders, save results),   *)
(* SingleFileProcessor.processSingleFile (one image, one metadata object,  *)
(* each uploaded by a single call) and main (configuration, authentication,*)
(* command dispatch, exit code).                                           *)
(*                                                                         *)
(* File names and token ids are sequences of one-character strings, paths  *)
(* are sequences of path components, content identifiers and errors are    *)
(* strings.                                                                *)
(***************************************************************************)
EXTENDS Integers, Sequences, FiniteSets, TLC

\* ---------------------------------------------------------------- bounds
\* largest value of MAX_RETRIES the environment is drawn from
MaxRetriesBound == 3
\* abandoned timers (and abandoned uploads) are counted up to MaxStale;
\* the value MaxStale stands for "MaxStale or more"
MaxStale == 1

\* ------------------------------------------------------------- constants
NULL == "null"
UNDEFINED == "undefined"
\* processBatchCollection has not rejected
NotThrown == "none"

\* errors an attempt can end with
ReadError == "ENOENT"
RemoteError == "UploadRejected"
TimeoutError == "UploadTimeout"
InputDirMissing == "InputDirMissing"
FsError == "FsError"
NoImageFound == "NoImageFound"

\* identifiers the remote service may answer with (opaque to the program)
Cids == {"cidA", "cidB"}

Digits == <<"0", "1", "2", "3", "4", "5", "6", "7", "8", "9">>

\* ------------------------------------------------- environment variables
\* an environment variable: unset, or set to a (possibly empty) string
Unset == [defined |-> FALSE, value |-> <<>>]
SetTo(s) == [defined |-> TRUE, value |-> s]

\* JavaScript `process.env.X || dflt`: undefined and "" are both falsy
OrDefault(v, dflt) == IF v.defined /\ v.value # <<>> THEN v.value ELSE dflt

IsDigit(c) == \E i \in 1..10 : Digits[i] = c
DigitVal(c) == (CHOOSE i \in 1..10 : Digits[i] = c) - 1

RECURSIVE DigitsValue(_, _)
\* value of the longest prefix of digits of s, continuing from acc
DigitsValue(s, acc) ==
  IF s = <<>> \/ ~IsDigit(Head(s)) THEN acc
  ELSE DigitsValue(Tail(s), 10 * acc + DigitVal(Head(s)))

\* JavaScript parseInt(s) for radix 10: optional sign, then leading digits;
\* NaN when there is no leading digit
ParseInt(s) ==
  LET neg  == s # <<>> /\ Head(s) = "-"
      body == IF s # <<>> /\ Head(s) \in {"-", "+"} THEN Tail(s) ELSE s
  IN  IF body = <<>> \/ ~IsDigit(Head(body))
      THEN [nan |-> TRUE, val |-> 0]
      ELSE [nan |-> FALSE,
            val |-> IF neg THEN 0 - DigitsValue(body, 0) ELSE DigitsValue(body, 0)]

\* JavaScript `x <= n` and `x < n` for an integer x and a parsed number n
NumLeq(x, n) == ~n.nan /\ x <= n.val
NumLt(x, n) == ~n.nan /\ x < n.val

\* JavaScript `!v` for a string that may be undefined
Falsy(v) == ~v.defined \/ v.value = <<>>

\* variant of CredentialsMissing: only the JWT is required
CredentialsMissingJwtOnly(e) == Falsy(e.PINATA_JWT)
\* ConfigManager.loadConfig throws: PINATA_JWT or PINATA_GATEWAY is missing
CredentialsMissing(e) == Falsy(e.PINATA_JWT) \/ Falsy(e.PINATA_GATEWAY)

DefaultSuffix == <<".", "j", "s", "o", "n">>
DefaultMaxRetries == <<"3">>

\* ConfigManager.loadConfig (credentials present)
LoadConfig(e) ==
  [metadataSuffix |-> OrDefault(e.METADATA_SUFFIX, DefaultSuffix),
   maxRetries     |-> ParseInt(OrDefault(e.MAX_RETRIES, DefaultMaxRetries))]

\* ------------------------------------------------------------ file names
UpperToLower ==
  [c \in {"P", "N", "G", "J", "E", "I", "F"} |->
     CASE c = "P" -> "p" [] c = "N" -> "n" [] c = "G" -> "g" [] c = "J" -> "j"
       [] c = "E" -> "e" [] c = "I" -> "i" [] c = "F" -> "f"]
Lower(c) == IF c \in DOMAIN UpperToLower THEN UpperToLower[c] ELSE c
LowerAll(s) == [i \in 1..Len(s) |-> Lower(s[i])]

ImageExts == {<<"p", "n", "g">>, <<"j", "p", "g">>, <<"j", "p", "e", "g">>,
              <<"g", "i", "f">>}

\* /\.(png|jpg|jpeg|gif)$/i.test(f)
IsImage(f) ==
  \E ext \in ImageExts :
     /\ Len(f) >= Len(ext) + 1
     /\ LowerAll(SubSeq(f, Len(f) - Len(ext), Len(f))) = <<".">> \o ext

\* position of the last "." of f after its first character, 0 if none
LastDot(f) ==
  LET dots == {i \in 2..Len(f) : f[i] = "."}
  IN  IF dots = {} THEN 0 ELSE CHOOSE i \in dots : \A j \in dots : j <= i

\* path.parse(f).name: the base name without its last extension
ParseName(f) == IF LastDot(f) = 0 THEN f ELSE SubSeq(f, 1, LastDot(f) - 1)

\* comparator of the sort: parseInt(name(a)) - parseInt(name(b)) > 0
\* (a NaN difference compares as equal)
SortsAfter(a, b) ==
  LET x == ParseInt(ParseName(a))
      y == ParseInt(ParseName(b))
  IN  ~x.nan /\ ~y.nan /\ x.val > y.val

RECURSIVE InsertSorted(_, _)
InsertSorted(sorted, f) ==
  IF sorted = <<>> THEN <<f>>
  ELSE IF SortsAfter(Head(sorted), f) THEN <<f>> \o sorted
  ELSE <<Head(sorted)>> \o InsertSorted(Tail(sorted), f)

RECURSIVE SortImages(_)
\* Array.prototype.sort with the comparator above (stable)
SortImages(fs) ==
  IF fs = <<>> THEN <<>>
  ELSE InsertSorted(SortImages(SubSeq(fs, 1, Len(fs) - 1)), fs[Len(fs)])

\* ----------------------------------------------------------------- paths
PathJoin(dir, name) == Append(dir, name)

ImagesInputDir == <<"assets", "batch_images">>
OutputDir == <<"output", "batch-upload-T">>
ResultsDir == PathJoin(OutputDir, "results")
\* variant of MetadataWithSuffixDir: one folder reused for both variants
SharedMetadataDir == PathJoin(OutputDir, "metadata")
MetadataWithSuffixDir == PathJoin(OutputDir, "metadata-json")
MetadataWithoutSuffixDir == PathJoin(OutputDir, "metadata")

SingleImageDir == <<"assets", "image">>
SingleOutputDir == <<"output", "single-upload-T">>
SingleResultsDir == PathJoin(SingleOutputDir, "results")

\* --------------------------------------------------------- input domains
Png2 == <<"2", ".", "P", "N", "G">>
Jpg10 == <<"1", "0", ".", "j", "p", "g">>
Notes == <<"n", "o", "t", "e", "s", ".", "t", "x", "t">>

Jpg2 == <<"2", ".", "j", "p", "g">>

\* directory listings of assets/batch_images, in readdir order
Listings == {<<>>, <<Jpg10, Notes, Png2>>, <<Jpg2, Png2>>}
\* directory listings of assets/image, in readdir order
SingleListings == {<<Notes>>, <<Notes, Png2, Jpg10>>}

SuffixEnv == {Unset, SetTo(<<>>), SetTo(<<".", "t", "x", "t">>)}
RetriesEnv == {Unset} \cup {SetTo(<<Digits[n + 1]>>) : n \in 0..MaxRetriesBound}

CredentialEnv == {Unset, SetTo(<<"s", "e", "t">>)}

Envs == [PINATA_JWT : CredentialEnv, PINATA_GATEWAY : CredentialEnv,
         METADATA_SUFFIX : SuffixEnv, MAX_RETRIES : RetriesEnv]

\* the command line: argv[2], whether "--no-suffix" occurs, argv[3]
NoArg == [defined |-> FALSE, value |-> ""]
Arg(s) == [defined |-> TRUE, value |-> s]
CommandLine(m, ns, c) == [mode |-> m, noSuffix |-> ns, cid |-> c]
\* (nothing), "--no-suffix", "single", "test", "pin", "pin cidP", "queue"
Args == {CommandLine(NoArg, FALSE, NoArg),
         CommandLine(Arg("--no-suffix"), TRUE, NoArg),
         CommandLine(Arg("single"), FALSE, NoArg),
         CommandLine(Arg("test"), FALSE, NoArg),
         CommandLine(Arg("pin"), FALSE, NoArg),
         CommandLine(Arg("pin"), FALSE, Arg("cidP")),
         CommandLine(Arg("queue"), FALSE, NoArg)}

\* JavaScript `!a` for a command-line argument that may be absent
ArgMissing(a) == ~a.defined \/ a.value = ""

\* `process.argv[2] || "batch"`
ModeOf(a) == IF ArgMissing(a.mode) THEN "batch" ELSE a.mode.value

\* the switch of main: every mode without a case of its own is a batch run
CommandOf(a) == IF ModeOf(a) \in {"single", "test", "pin", "queue"}
                THEN ModeOf(a) ELSE "batch"

\* variant of BatchArgument: both variants whatever the command line says
BatchArgumentAlwaysBoth(a) == TRUE
\* the argument main passes to processBatchCollection
BatchArgument(a) == ~a.noSuffix

\* ----------------------------------------------------------------- state
VARIABLES
  env,                  \* process.env as read by loadConfig
  config,               \* Config
  generateBothVersions, \* argument of processBatchCollection
  batchImages,          \* listing of the image input directory
  fsDirs,               \* directories that exist
  fsFiles,              \* files on disk: [dir, name]
  fileWrites,           \* metadata writes done: [variant, dir, name, source, body]
  cleanupFailed,        \* scratch directories whose removal failed (warned)
  pc,                   \* position in processBatchCollection
  thrown,               \* error processBatchCollection rejected with
  imagesFolderCid,
  imageFiles,
  writeIdx,             \* index of the next image in the write loop
  withSuffixCid,        \* identifier of the with-suffix metadata folder
  withoutSuffixCid,     \* identifier of the without-suffix metadata folder
  resultWrites,         \* records written to results/upload-result.json
  readmeWrites,         \* number of writes of README.md
  upc,                  \* position in uploadDirectoryWithRetry
  dirPath,              \* its argument
  attempt,
  lastError,
  race,                 \* the Promise.race of the current attempt
  upResult,             \* value uploadDirectoryWithRetry resolved with
  staleUploads,         \* abandoned fileArray calls not yet settled
  staleTimers,          \* timeout timers of settled races not yet fired
  remoteCalls,          \* fileArray calls made by the current call
  sleeps,               \* retry-delay sleeps started by the current call
  failures,             \* failed attempts logged by the current call
  failedWith,           \* error the most recent failed attempt ended with
  readFailures,         \* attempts of the current call that failed reading
  uploadOps,            \* directories uploadDirectoryWithRetry was called with
  pinned,               \* folders the remote service answered for
  argv,                 \* the command line
  mpc,                  \* position in main
  exits,                \* exit codes process.exit was called with
  mainLog,              \* what main and testAuthentication logged
  authCalls,            \* pinata.testAuthentication calls made
  authSuccess,          \* <<>> until main assigns it, then <<TRUE>> or <<FALSE>>
  fileCalls,            \* remote calls other than directory uploads
  singleImages,         \* listing of the single-image input directory
  spc,                  \* position in processSingleFile
  singleThrown,         \* error processSingleFile rejected with
  firstImage,
  imageCid,
  metadataCid,
  singleMetadata,       \* the metadata object of the single-item flow
  singleResults,        \* records written by saveSingleFileResults
  singleReadmes         \* number of writes of its README.md

inputVars == <<env, config, generateBothVersions, batchImages>>
fsVars == <<fsDirs, fsFiles, fileWrites, cleanupFailed>>
batchData == <<imagesFolderCid, imageFiles, writeIdx, withSuffixCid,
               withoutSuffixCid, resultWrites, readmeWrites>>
batchVars == <<pc, thrown, batchData>>
loopVars == <<upc, dirPath, attempt, lastError, race, upResult>>
staleVars == <<staleUploads, staleTimers>>
obsVars == <<remoteCalls, sleeps, failures, failedWith, readFailures,
             uploadOps, pinned>>
mainVars == <<argv, mpc, exits, mainLog, authCalls, authSuccess, fileCalls>>
singleData == <<firstImage, imageCid, metadataCid, singleMetadata,
                singleResults, singleReadmes>>
singleVars == <<singleImages, spc, singleThrown, singleData>>
vars == <<inputVars, fsVars, batchVars, loopVars, staleVars, obsVars,
          mainVars, singleVars>>

NoRace == [state |-> "none", value |-> NULL, files |-> {}]

\* the input directories a command line can find: a batch run looks at
\* assets/batch_images, a single run at assets/image
InputDirs(a) ==
  CASE CommandOf(a) = "batch" -> {{}, {ImagesInputDir}}
    [] CommandOf(a) = "single" ->
         {{ImagesInputDir}, {ImagesInputDir, SingleImageDir}}
    [] OTHER -> {{ImagesInputDir}}

Init ==
  /\ env \in Envs
  /\ config = LoadConfig(env)
  /\ argv \in Args
  /\ generateBothVersions = BatchArgument(argv)
  /\ fsDirs \in InputDirs(argv)
  /\ batchImages \in (IF ImagesInputDir \in fsDirs /\ CommandOf(argv) = "batch"
                      THEN Listings ELSE {<<>>})
  /\ singleImages \in (IF SingleImageDir \in fsDirs
                       THEN SingleListings ELSE {<<>>})
  /\ fsFiles = {[dir |-> ImagesInputDir, name |-> batchImages[i]] :
                  i \in 1..Len(batchImages)}
                \cup {[dir |-> SingleImageDir, name |-> singleImages[i]] :
                        i \in 1..Len(singleImages)}
  /\ mpc = "loadConfig"
  /\ exits = <<>>
  /\ mainLog = <<>>
  /\ authCalls = 0
  /\ authSuccess = <<>>
  /\ fileCalls = <<>>
  /\ spc = "idle"
  /\ singleThrown = NotThrown
  /\ firstImage = <<>>
  /\ imageCid = NULL
  /\ metadataCid = NULL
  /\ singleMetadata = <<>>
  /\ singleResults = <<>>
  /\ singleReadmes = 0
  /\ fileWrites = {}
  /\ cleanupFailed = {}
  /\ pc = "validate"
  /\ thrown = NotThrown
  /\ imagesFolderCid = NULL
  /\ imageFiles = <<>>
  /\ writeIdx = 1
  /\ withSuffixCid = UNDEFINED
  /\ withoutSuffixCid = UNDEFINED
  /\ resultWrites = <<>>
  /\ readmeWrites = 0
  /\ upc = "idle"
  /\ dirPath = <<>>
  /\ attempt = 0
  /\ lastError = NULL
  /\ race = NoRace
  /\ upResult = NULL
  /\ staleUploads = 0
  /\ staleTimers = 0
  /\ remoteCalls = 0
  /\ sleeps = 0
  /\ failures = 0
  /\ failedWith = NULL
  /\ readFailures = 0
  /\ uploadOps = <<>>
  /\ pinned = {}

\* ------------------------------------------- PinataUploader (retry loop)
\* names of the files readDirectoryFiles(dir) collects
FilesUnder(dir) == {f.name : f \in {g \in fsFiles : g.dir = dir}}

\* entry of uploadDirectoryWithRetry(dir) up to its first await: the loop
\* starts at attempt 1, and is left at once when 1 <= maxRetries is false
CallUploadDirectory(dir) ==
  /\ dirPath' = dir
  /\ lastError' = NULL
  /\ attempt' = 1
  /\ race' = NoRace
  /\ upResult' = NULL
  /\ upc' = IF NumLeq(1, config.maxRetries) THEN "read" ELSE "thrown"
  /\ remoteCalls' = 0
  /\ sleeps' = 0
  /\ failures' = 0
  /\ failedWith' = NULL
  /\ readFailures' = 0
  /\ uploadOps' = Append(uploadOps, dir)
  /\ pinned' = pinned

\* one more abandoned timer or upload
Abandon(n) == IF n < MaxStale THEN n + 1 ELSE MaxStale
\* the counts that can remain after one of n abandoned ones settles
Settle(n) == IF n = MaxStale THEN {n, n - 1} ELSE {n - 1}

\* the caller resumes: the locals of the finished call are gone
ReleaseCall ==
  /\ upc' = "idle"
  /\ dirPath' = <<>>
  /\ attempt' = 0
  /\ lastError' = NULL
  /\ race' = NoRace
  /\ upResult' = NULL
  /\ remoteCalls' = 0
  /\ sleeps' = 0
  /\ failures' = 0
  /\ failedWith' = NULL
  /\ readFailures' = 0
  /\ UNCHANGED <<uploadOps, pinned>>

\* variant of CatchAttempt: the first error is kept instead of the last
CatchAttemptKeepFirst(err) ==
  /\ lastError' = IF lastError = NULL THEN err ELSE lastError
  /\ failures' = failures + 1
  /\ IF NumLt(attempt, config.maxRetries)
     THEN /\ upc' = "sleep"
          /\ sleeps' = sleeps + 1
          /\ attempt' = attempt
     ELSE /\ attempt' = attempt + 1
          /\ sleeps' = sleeps
          /\ upc' = IF NumLeq(attempt + 1, config.maxRetries)
                    THEN "read" ELSE "thrown"

\* variant of CatchAttempt: sleeps after the last permitted attempt too
CatchAttemptSleepAlways(err) ==
  /\ lastError' = err
  /\ failures' = failures + 1
  /\ IF NumLeq(attempt, config.maxRetries)
     THEN /\ upc' = "sleep"
          /\ sleeps' = sleeps + 1
          /\ attempt' = attempt
     ELSE /\ attempt' = attempt + 1
          /\ sleeps' = sleeps
          /\ upc' = IF NumLeq(attempt + 1, config.maxRetries)
                    THEN "read" ELSE "thrown"

\* the outer catch of an attempt, then the loop increment and exit
CatchAttempt(err) ==
  /\ lastError' = err
  /\ failures' = failures + 1
  /\ IF NumLt(attempt, config.maxRetries)
     THEN /\ upc' = "sleep"
          /\ sleeps' = sleeps + 1
          /\ attempt' = attempt
     ELSE /\ attempt' = attempt + 1
          /\ sleeps' = sleeps
          /\ upc' = IF NumLeq(attempt + 1, config.maxRetries)
                    THEN "read" ELSE "thrown"

\* variant of ReadDirectory: the loop does not await the race, the next
\* upload call is made while the previous one is pending
ReadDirectoryOverlapping ==
  /\ \/ upc = "read"
     \/ upc = "race" /\ race.state = "pending"
  /\ dirPath \in fsDirs
  /\ race' = [state |-> "pending", value |-> NULL,
              files |-> FilesUnder(dirPath)]
  /\ upc' = "race"
  /\ remoteCalls' = IF remoteCalls < MaxRetriesBound + 1
                    THEN remoteCalls + 1 ELSE remoteCalls
  /\ UNCHANGED <<attempt, lastError, sleeps, failures, failedWith,
                 readFailures>>
  /\ UNCHANGED <<dirPath, upResult, uploadOps, pinned>>
  /\ UNCHANGED <<mainVars, singleVars, inputVars, fsVars, batchVars, staleVars>>

\* await readDirectoryFiles(dirPath), then the start of the race
ReadDirectory ==
  /\ upc = "read"
  /\ \E ok \in {b \in BOOLEAN : b => dirPath \in fsDirs} :
       IF ok
       THEN /\ race' = [state |-> "pending", value |-> NULL,
                        files |-> FilesUnder(dirPath)]
            /\ upc' = "race"
            /\ remoteCalls' = remoteCalls + 1
            /\ UNCHANGED <<attempt, lastError, sleeps, failures, failedWith,
                           readFailures>>
       ELSE /\ failedWith' = ReadError
            /\ readFailures' = readFailures + 1
            /\ CatchAttempt(ReadError)
            /\ UNCHANGED <<race, remoteCalls>>
  /\ UNCHANGED <<dirPath, upResult, uploadOps, pinned>>
  /\ UNCHANGED <<mainVars, singleVars, inputVars, fsVars, batchVars, staleVars>>

\* the remote service answers the fileArray call of the current attempt
UploadResolves ==
  /\ upc = "race"
  /\ race.state = "pending"
  /\ \E cid \in Cids :
       /\ race' = [race EXCEPT !.state = "resolved", !.value = cid]
       /\ pinned' = pinned \cup
                      {[dir |-> dirPath, names |-> race.files, cid |-> cid]}
  /\ staleTimers' = Abandon(staleTimers)
  /\ UNCHANGED <<upc, dirPath, attempt, lastError, upResult, staleUploads>>
  /\ UNCHANGED <<remoteCalls, sleeps, failures, failedWith, readFailures,
                 uploadOps>>
  /\ UNCHANGED <<mainVars, singleVars, inputVars, fsVars, batchVars>>

\* the remote service rejects the fileArray call of the current attempt
UploadRejects ==
  /\ upc = "race"
  /\ race.state = "pending"
  /\ race' = [race EXCEPT !.state = "rejected", !.value = RemoteError]
  /\ failedWith' = RemoteError
  /\ staleTimers' = Abandon(staleTimers)
  /\ UNCHANGED <<upc, dirPath, attempt, lastError, upResult, staleUploads>>
  /\ UNCHANGED <<remoteCalls, sleeps, failures, readFailures, uploadOps,
                 pinned>>
  /\ UNCHANGED <<mainVars, singleVars, inputVars, fsVars, batchVars>>

\* variant of TimerFires: the timer fires but rejects nothing
TimerFiresUnobserved ==
  /\ upc = "race"
  /\ race.state = "pending"
  /\ UNCHANGED vars

\* the uploadTimeout timer of the current attempt fires first
TimerFires ==
  /\ upc = "race"
  /\ race.state = "pending"
  /\ race' = [race EXCEPT !.state = "rejected", !.value = TimeoutError]
  /\ failedWith' = TimeoutError
  /\ staleUploads' = Abandon(staleUploads)
  /\ UNCHANGED <<upc, dirPath, attempt, lastError, upResult, staleTimers>>
  /\ UNCHANGED <<remoteCalls, sleeps, failures, readFailures, uploadOps,
                 pinned>>
  /\ UNCHANGED <<mainVars, singleVars, inputVars, fsVars, batchVars>>

\* variant of RaceSettled: a timed-out attempt is repeated without being
\* counted
RaceSettledTimeoutFree ==
  /\ upc = "race"
  /\ race.state \in {"resolved", "rejected"}
  /\ IF race.state = "resolved"
     THEN /\ upc' = "returned"
          /\ upResult' = race.value
          /\ UNCHANGED <<attempt, lastError, sleeps, failures>>
     ELSE IF race.value = TimeoutError
     THEN /\ upc' = "read"
          /\ UNCHANGED <<attempt, lastError, sleeps, failures, upResult>>
     ELSE /\ CatchAttempt(race.value)
          /\ upResult' = upResult
  /\ race' = NoRace
  /\ UNCHANGED <<dirPath, remoteCalls, failedWith, readFailures, uploadOps,
                 pinned>>
  /\ UNCHANGED <<mainVars, singleVars, inputVars, fsVars, batchVars, staleVars>>

\* continuation of `await Promise.race(...)`
RaceSettled ==
  /\ upc = "race"
  /\ race.state \in {"resolved", "rejected"}
  /\ IF race.state = "resolved"
     THEN /\ upc' = "returned"
          /\ upResult' = race.value
          /\ UNCHANGED <<attempt, lastError, sleeps, failures>>
     ELSE /\ CatchAttempt(race.value)
          /\ upResult' = upResult
  /\ race' = NoRace
  /\ UNCHANGED <<dirPath, remoteCalls, failedWith, readFailures, uploadOps,
                 pinned>>
  /\ UNCHANGED <<mainVars, singleVars, inputVars, fsVars, batchVars, staleVars>>

\* the retryDelay timer fires: next iteration of the loop
SleepDone ==
  /\ upc = "sleep"
  /\ attempt' = attempt + 1
  /\ upc' = IF NumLeq(attempt + 1, config.maxRetries) THEN "read" ELSE "thrown"
  /\ UNCHANGED <<dirPath, lastError, race, upResult>>
  /\ UNCHANGED <<mainVars, singleVars, inputVars, fsVars, batchVars, staleVars, obsVars>>

\* a timeout timer whose race is already settled fires: nothing observes it
StaleTimerFires ==
  /\ mpc # "exited"
  /\ staleTimers > 0
  /\ staleTimers' \in Settle(staleTimers)
  /\ UNCHANGED <<mainVars, singleVars, staleUploads, inputVars, fsVars, batchVars, loopVars, obsVars>>

\* variant of StaleUploadSettles: the late answer of an abandoned call is
\* taken for the answer of the race that is pending
StaleUploadSettlesObserved ==
  /\ mpc # "exited"
  /\ staleUploads > 0
  /\ staleUploads' \in Settle(staleUploads)
  /\ IF upc = "race" /\ race.state = "pending"
     THEN \E cid \in Cids :
            race' = [race EXCEPT !.state = "resolved", !.value = cid]
     ELSE race' = race
  /\ UNCHANGED <<upc, dirPath, attempt, lastError, upResult>>
  /\ UNCHANGED <<mainVars, singleVars, staleTimers, inputVars, fsVars, batchVars, obsVars>>

\* an abandoned fileArray call settles: nothing observes it
StaleUploadSettles ==
  /\ mpc # "exited"
  /\ staleUploads > 0
  /\ staleUploads' \in Settle(staleUploads)
  /\ UNCHANGED <<mainVars, singleVars, staleTimers, inputVars, fsVars, batchVars, loopVars, obsVars>>

\* ------------------------------------- BatchProcessor.processBatchCollection
\* the scratch directories of this run, in the order they are handled
ScratchDirs ==
  IF generateBothVersions
  THEN <<MetadataWithSuffixDir, MetadataWithoutSuffixDir>>
  ELSE <<MetadataWithoutSuffixDir>>

\* variant of CreateMetadata: the image field names the token, not the file
CreateMetadataByToken(tokenId, cid, fileName) ==
  <<[key |-> "name", value |-> <<"MetaCore #">> \o tokenId],
    [key |-> "description", value |-> <<"a unique member of MetaCore">>],
    [key |-> "image", value |-> <<"ipfs://", cid, "/">> \o tokenId],
    [key |-> "attributes",
     value |-> <<[trait_type |-> "ID", value |-> ParseInt(tokenId)]>>]>>
\* createMetadata: the metadata object, as the ordered list of its fields
CreateMetadata(tokenId, cid, fileName) ==
  <<[key |-> "name", value |-> <<"MetaCore #">> \o tokenId],
    [key |-> "description", value |-> <<"a unique member of MetaCore">>],
    [key |-> "image", value |-> <<"ipfs://", cid, "/">> \o fileName],
    [key |-> "attributes",
     value |-> <<[trait_type |-> "ID", value |-> ParseInt(tokenId)]>>]>>

\* one fs.writeFile of the write loop: the metadata of image fileName is
\* written under name into the folder of a variant
MetadataWrite(variant, dir, name, fileName) ==
  [variant |-> variant, dir |-> dir, name |-> name, source |-> fileName,
   body |-> CreateMetadata(ParseName(fileName), imagesFolderCid, fileName)]

\* the metadata files written for one image, in the order they are written
MetadataFilesFor(fileName) ==
  LET tokenId == ParseName(fileName)
  IN  IF generateBothVersions
      THEN <<MetadataWrite("withSuffix", MetadataWithSuffixDir,
                           tokenId \o config.metadataSuffix, fileName),
             MetadataWrite("withoutSuffix", MetadataWithoutSuffixDir,
                           tokenId, fileName)>>
      ELSE <<MetadataWrite("withoutSuffix", MetadataWithoutSuffixDir,
                           tokenId, fileName)>>

Range(s) == {s[i] : i \in 1..Len(s)}

\* the write loop continues, or ends and the first metadata upload starts
AfterWriteLoop(nextIdx) ==
  IF nextIdx > Len(imageFiles')
  THEN /\ pc' = IF generateBothVersions
                THEN "uploadWithSuffix" ELSE "uploadWithoutSuffix"
       /\ CallUploadDirectory(ScratchDirs[1])
  ELSE /\ pc' = "writeMetadata"
       /\ UNCHANGED <<loopVars, obsVars>>

\* variant of ValidateInput: the existence check is skipped
ValidateInputUnchecked ==
  /\ mpc = "batch"
  /\ pc = "validate"
  /\ pc' = "uploadImages"
  /\ thrown' = thrown
  /\ CallUploadDirectory(ImagesInputDir)
  /\ UNCHANGED <<mainVars, singleVars, inputVars, fsVars, batchData, staleVars>>

ValidateInput ==
  /\ mpc = "batch"
  /\ pc = "validate"
  /\ IF ImagesInputDir \notin fsDirs
     THEN /\ pc' = "failed"
          /\ thrown' = InputDirMissing
          /\ UNCHANGED <<loopVars, obsVars>>
     ELSE /\ pc' = "uploadImages"
          /\ thrown' = thrown
          /\ CallUploadDirectory(ImagesInputDir)
  /\ UNCHANGED <<mainVars, singleVars, inputVars, fsVars, batchData, staleVars>>

ImagesUploaded ==
  /\ pc = "uploadImages"
  /\ upc = "returned"
  /\ imagesFolderCid' = upResult
  /\ ReleaseCall
  /\ pc' = "listImages"
  /\ UNCHANGED <<thrown, imageFiles, writeIdx, withSuffixCid, withoutSuffixCid,
                 resultWrites, readmeWrites>>
  /\ UNCHANGED <<mainVars, singleVars, inputVars, fsVars, staleVars>>

\* a rejected uploadDirectoryWithRetry is not caught by the batch processor
UploadThrows(at) ==
  /\ pc = at
  /\ upc = "thrown"
  /\ pc' = "failed"
  /\ thrown' = lastError
  /\ ReleaseCall
  /\ UNCHANGED <<mainVars, singleVars, inputVars, fsVars, batchData, staleVars>>

\* variant of ImagesUploadThrows: the rejection is swallowed
ImagesUploadSwallowed ==
  /\ pc = "uploadImages"
  /\ upc = "thrown"
  /\ pc' = "listImages"
  /\ ReleaseCall
  /\ UNCHANGED <<mainVars, singleVars, thrown, batchData, inputVars, fsVars, staleVars>>

ImagesUploadThrows == UploadThrows("uploadImages")

\* readdir of the input directory and the image filter
ListImages ==
  /\ pc = "listImages"
  /\ \E ok \in BOOLEAN :
       IF ok
       THEN /\ imageFiles' = SelectSeq(batchImages, IsImage)
            /\ pc' = "createOutput"
            /\ thrown' = thrown
       ELSE /\ pc' = "failed"
            /\ thrown' = FsError
            /\ imageFiles' = imageFiles
  /\ UNCHANGED <<imagesFolderCid, writeIdx, withSuffixCid, withoutSuffixCid,
                 resultWrites, readmeWrites>>
  /\ UNCHANGED <<mainVars, singleVars, inputVars, fsVars, loopVars, staleVars, obsVars>>

\* createDirectory(outputDir), createDirectory(resultsDir), then the sort
CreateOutputDirs ==
  /\ pc = "createOutput"
  /\ \E n \in 0..2 :
       /\ fsDirs' = fsDirs \cup Range(SubSeq(<<OutputDir, ResultsDir>>, 1, n))
       /\ IF n = 2
          THEN /\ imageFiles' = SortImages(imageFiles)
               /\ pc' = "prepareScratch"
               /\ thrown' = thrown
          ELSE /\ pc' = "failed"
               /\ thrown' = FsError
               /\ imageFiles' = imageFiles
  /\ UNCHANGED <<imagesFolderCid, writeIdx, withSuffixCid, withoutSuffixCid,
                 resultWrites, readmeWrites>>
  /\ UNCHANGED <<mainVars, singleVars, inputVars, fsFiles, fileWrites, cleanupFailed>>
  /\ UNCHANGED <<loopVars, staleVars, obsVars>>

\* cleanupDirectory and createDirectory of each scratch directory
PrepareScratch ==
  /\ pc = "prepareScratch"
  /\ \E n \in 0..Len(ScratchDirs) :
       /\ fsDirs' = (fsDirs \ Range(ScratchDirs))
                       \cup Range(SubSeq(ScratchDirs, 1, n))
       /\ fsFiles' = {f \in fsFiles : f.dir \notin Range(ScratchDirs)}
       /\ UNCHANGED <<fileWrites, cleanupFailed>>
       /\ imageFiles' = imageFiles
       /\ IF n = Len(ScratchDirs)
          THEN /\ writeIdx' = 1
               /\ thrown' = thrown
               /\ AfterWriteLoop(1)
          ELSE /\ pc' = "failed"
               /\ thrown' = FsError
               /\ writeIdx' = writeIdx
               /\ UNCHANGED <<loopVars, obsVars>>
  /\ UNCHANGED <<imagesFolderCid, withSuffixCid, withoutSuffixCid,
                 resultWrites, readmeWrites>>
  /\ UNCHANGED <<mainVars, singleVars, inputVars, staleVars>>

\* one iteration of the write loop: the file(s) of imageFiles[writeIdx]
WriteMetadata ==
  /\ pc = "writeMetadata"
  /\ writeIdx <= Len(imageFiles)
  /\ LET out == MetadataFilesFor(imageFiles[writeIdx])
     IN  \E n \in 0..Len(out) :
           /\ fsFiles' = fsFiles \cup
                            {[dir |-> out[i].dir, name |-> out[i].name] :
                               i \in 1..n}
           /\ fileWrites' = fileWrites \cup Range(SubSeq(out, 1, n))
           /\ imageFiles' = imageFiles
           /\ IF n = Len(out)
              THEN /\ writeIdx' = writeIdx + 1
                   /\ thrown' = thrown
                   /\ AfterWriteLoop(writeIdx + 1)
              ELSE /\ pc' = "failed"
                   /\ thrown' = FsError
                   /\ writeIdx' = writeIdx
                   /\ UNCHANGED <<loopVars, obsVars>>
  /\ UNCHANGED <<imagesFolderCid, withSuffixCid, withoutSuffixCid,
                 resultWrites, readmeWrites>>
  /\ UNCHANGED <<mainVars, singleVars, inputVars, fsDirs, cleanupFailed, staleVars>>

\* the with-suffix folder is uploaded: the without-suffix upload starts
WithSuffixUploaded ==
  /\ pc = "uploadWithSuffix"
  /\ upc = "returned"
  /\ withSuffixCid' = upResult
  /\ pc' = "uploadWithoutSuffix"
  /\ CallUploadDirectory(MetadataWithoutSuffixDir)
  /\ UNCHANGED <<thrown, imagesFolderCid, imageFiles, writeIdx,
                 withoutSuffixCid, resultWrites, readmeWrites>>
  /\ UNCHANGED <<mainVars, singleVars, inputVars, fsVars, staleVars>>

WithSuffixUploadThrows == UploadThrows("uploadWithSuffix")

WithoutSuffixUploaded ==
  /\ pc = "uploadWithoutSuffix"
  /\ upc = "returned"
  /\ withoutSuffixCid' = upResult
  /\ pc' = "cleanup"
  /\ ReleaseCall
  /\ UNCHANGED <<thrown, imagesFolderCid, imageFiles, writeIdx,
                 withSuffixCid, resultWrites, readmeWrites>>
  /\ UNCHANGED <<mainVars, singleVars, inputVars, fsVars, staleVars>>

\* variant of WithoutSuffixUploadThrows: the rejection is swallowed
WithoutSuffixUploadSwallowed ==
  /\ pc = "uploadWithoutSuffix"
  /\ upc = "thrown"
  /\ pc' = "cleanup"
  /\ ReleaseCall
  /\ UNCHANGED <<mainVars, singleVars, thrown, batchData, inputVars, fsVars, staleVars>>

WithoutSuffixUploadThrows == UploadThrows("uploadWithoutSuffix")

\* cleanupDirectory of each scratch directory; a failing rm is only logged
CleanupScratch ==
  /\ pc = "cleanup"
  /\ \E kept \in SUBSET Range(ScratchDirs) :
       /\ fsDirs' = fsDirs \ (Range(ScratchDirs) \ kept)
       /\ fsFiles' = {f \in fsFiles : f.dir \notin (Range(ScratchDirs) \ kept)}
       /\ cleanupFailed' = cleanupFailed \cup kept
       /\ fileWrites' = fileWrites
  /\ pc' = "saveResult"
  /\ UNCHANGED <<thrown, batchData>>
  /\ UNCHANGED <<mainVars, singleVars, inputVars, loopVars, staleVars, obsVars>>

\* variant of UploadResultRecord: the two metadata identifiers are swapped
UploadResultRecordSwapped ==
  [imagesFolderCid          |-> imagesFolderCid,
   metadataWithSuffixCid    |-> withoutSuffixCid,
   metadataWithoutSuffixCid |-> withSuffixCid,
   imageCount               |-> Len(imageFiles),
   metadataFiles            |->
     [i \in 1..Len(imageFiles) |->
        [tokenId |-> ParseName(imageFiles[i]),
         metadataFileWithSuffix |->
           ParseName(imageFiles[i]) \o config.metadataSuffix,
         metadataFileWithoutSuffix |-> ParseName(imageFiles[i])]]]
\* the BatchUploadResult record built before saveResults
UploadResultRecord ==
  [imagesFolderCid          |-> imagesFolderCid,
   metadataWithSuffixCid    |-> withSuffixCid,
   metadataWithoutSuffixCid |-> withoutSuffixCid,
   imageCount               |-> Len(imageFiles),
   metadataFiles            |->
     [i \in 1..Len(imageFiles) |->
        [tokenId |-> ParseName(imageFiles[i]),
         metadataFileWithSuffix |->
           ParseName(imageFiles[i]) \o config.metadataSuffix,
         metadataFileWithoutSuffix |-> ParseName(imageFiles[i])]]]

\* saveResults: fs.writeFile of results/upload-result.json
SaveResultFile ==
  /\ pc = "saveResult"
  /\ \E ok \in {b \in BOOLEAN : b => ResultsDir \in fsDirs} :
       IF ok
       THEN /\ resultWrites' = Append(resultWrites, UploadResultRecord)
            /\ pc' = "saveReadme"
            /\ thrown' = thrown
       ELSE /\ pc' = "failed"
            /\ thrown' = FsError
            /\ resultWrites' = resultWrites
  /\ UNCHANGED <<imagesFolderCid, imageFiles, writeIdx, withSuffixCid,
                 withoutSuffixCid, readmeWrites>>
  /\ UNCHANGED <<mainVars, singleVars, inputVars, fsVars, loopVars, staleVars, obsVars>>

\* variant of SaveReadme: a failed write is ignored
SaveReadmeIgnoreFailure ==
  /\ pc = "saveReadme"
  /\ \E ok \in {b \in BOOLEAN : b => OutputDir \in fsDirs} :
       readmeWrites' = IF ok THEN readmeWrites + 1 ELSE readmeWrites
  /\ pc' = "done"
  /\ UNCHANGED <<thrown, imagesFolderCid, imageFiles, writeIdx, withSuffixCid,
                 withoutSuffixCid, resultWrites>>
  /\ UNCHANGED <<mainVars, singleVars, inputVars, fsVars, loopVars, staleVars, obsVars>>

\* saveResults: fs.writeFile of README.md, then the run is complete
SaveReadme ==
  /\ pc = "saveReadme"
  /\ \E ok \in {b \in BOOLEAN : b => OutputDir \in fsDirs} :
       IF ok
       THEN /\ readmeWrites' = readmeWrites + 1
            /\ pc' = "done"
            /\ thrown' = thrown
       ELSE /\ pc' = "failed"
            /\ thrown' = FsError
            /\ readmeWrites' = readmeWrites
  /\ UNCHANGED <<imagesFolderCid, imageFiles, writeIdx, withSuffixCid,
                 withoutSuffixCid, resultWrites>>
  /\ UNCHANGED <<mainVars, singleVars, inputVars, fsVars, loopVars, staleVars, obsVars>>

\* ----------------------------------- SingleFileProcessor.processSingleFile
\* the metadata object of the single-item flow, as an ordered list of fields
SingleMetadata(imageName, cid) ==
  <<[key |-> "name", value |-> <<"MetaCore #">> \o imageName],
    [key |-> "description", value |-> <<"single NFT example">>],
    [key |-> "image", value |-> <<"ipfs://", cid>>],
    [key |-> "attributes",
     value |-> <<[trait_type |-> "Type", value |-> "Single"]>>]>>

MetadataFileName(imageName) == imageName \o <<"-metadata.json">>

\* a call of pinata.upload.public.file / .cid / files.public.queue
FileCall(op, name) == [op |-> op, name |-> name]

SingleUploadResult ==
  [imageCid |-> imageCid, metadataCid |-> metadataCid,
   imageUrl |-> <<"ipfs://", imageCid>>,
   metadataUrl |-> <<"ipfs://", metadataCid>>,
   metadata |-> singleMetadata]

\* processSingleFile rejects with err
SingleFails(err) ==
  /\ spc' = "failed"
  /\ singleThrown' = err

\* existsSync(singleImageDir)
SingleCheckDir ==
  /\ mpc = "single"
  /\ spc = "start"
  /\ IF SingleImageDir \notin fsDirs
     THEN SingleFails(InputDirMissing)
     ELSE spc' = "readdir" /\ singleThrown' = singleThrown
  /\ UNCHANGED <<singleImages, singleData, mainVars>>
  /\ UNCHANGED <<inputVars, fsVars, batchVars, loopVars, staleVars, obsVars>>

\* fs.readdir and the image filter; the first image is chosen and
\* uploadSingleFile starts reading it
SingleListImages ==
  /\ spc = "readdir"
  /\ \E ok \in BOOLEAN :
       LET images == SelectSeq(singleImages, IsImage)
       IN  IF ~ok THEN SingleFails(FsError) /\ firstImage' = firstImage
           ELSE IF Len(images) = 0
           THEN SingleFails(NoImageFound) /\ firstImage' = firstImage
           ELSE /\ firstImage' = images[1]
                /\ spc' = "readFile"
                /\ singleThrown' = singleThrown
  /\ UNCHANGED <<singleImages, imageCid, metadataCid, singleMetadata,
                 singleResults, singleReadmes, mainVars>>
  /\ UNCHANGED <<inputVars, fsVars, batchVars, loopVars, staleVars, obsVars>>

\* uploadSingleFile: fs.readFile, then the one call of upload.public.file
SingleReadFile ==
  /\ spc = "readFile"
  /\ \E ok \in BOOLEAN :
       IF ok
       THEN /\ fileCalls' = Append(fileCalls, FileCall("file", firstImage))
            /\ spc' = "uploadImage"
            /\ singleThrown' = singleThrown
       ELSE SingleFails(ReadError) /\ fileCalls' = fileCalls
  /\ UNCHANGED <<singleImages, singleData>>
  /\ UNCHANGED <<argv, mpc, exits, mainLog, authCalls, authSuccess>>
  /\ UNCHANGED <<inputVars, fsVars, batchVars, loopVars, staleVars, obsVars>>

\* variant of SingleImageSettles: a rejected image upload is ignored and
\* the metadata is uploaded all the same
SingleImageSettlesLenient ==
  /\ spc = "uploadImage"
  /\ \E cid \in Cids \cup {NULL} :
       /\ imageCid' = cid
       /\ singleMetadata' = SingleMetadata(ParseName(firstImage), cid)
       /\ fileCalls' = Append(fileCalls,
            FileCall("file", MetadataFileName(ParseName(firstImage))))
       /\ spc' = "uploadMetadata"
       /\ singleThrown' = singleThrown
  /\ UNCHANGED <<singleImages, firstImage, metadataCid, singleResults,
                 singleReadmes>>
  /\ UNCHANGED <<argv, mpc, exits, mainLog, authCalls, authSuccess>>
  /\ UNCHANGED <<inputVars, fsVars, batchVars, loopVars, staleVars, obsVars>>

\* the image upload settles; on success the metadata object is built and
\* uploadMetadata makes its one call of upload.public.file
SingleImageSettles ==
  /\ spc = "uploadImage"
  /\ \/ \E cid \in Cids :
          /\ imageCid' = cid
          /\ singleMetadata' = SingleMetadata(ParseName(firstImage), cid)
          /\ fileCalls' = Append(fileCalls,
               FileCall("file", MetadataFileName(ParseName(firstImage))))
          /\ spc' = "uploadMetadata"
          /\ singleThrown' = singleThrown
     \/ /\ SingleFails(RemoteError)
        /\ UNCHANGED <<imageCid, singleMetadata, fileCalls>>
  /\ UNCHANGED <<singleImages, firstImage, metadataCid, singleResults,
                 singleReadmes>>
  /\ UNCHANGED <<argv, mpc, exits, mainLog, authCalls, authSuccess>>
  /\ UNCHANGED <<inputVars, fsVars, batchVars, loopVars, staleVars, obsVars>>

\* the metadata upload settles
SingleMetadataSettles ==
  /\ spc = "uploadMetadata"
  /\ \/ \E cid \in Cids :
          /\ metadataCid' = cid
          /\ spc' = "createOutput"
          /\ singleThrown' = singleThrown
     \/ SingleFails(RemoteError) /\ metadataCid' = metadataCid
  /\ UNCHANGED <<singleImages, firstImage, imageCid, singleMetadata,
                 singleResults, singleReadmes, mainVars>>
  /\ UNCHANGED <<inputVars, fsVars, batchVars, loopVars, staleVars, obsVars>>

\* saveSingleFileResults: createDirectory of the output and results folders
SingleCreateOutputDirs ==
  /\ spc = "createOutput"
  /\ \E n \in 0..2 :
       /\ fsDirs' = fsDirs \cup
            {<<SingleOutputDir, SingleResultsDir>>[i] : i \in 1..n}
       /\ IF n = 2
          THEN spc' = "saveResult" /\ singleThrown' = singleThrown
          ELSE SingleFails(FsError)
  /\ UNCHANGED <<singleImages, singleData, mainVars>>
  /\ UNCHANGED <<fsFiles, fileWrites, cleanupFailed>>
  /\ UNCHANGED <<inputVars, batchVars, loopVars, staleVars, obsVars>>

\* saveSingleFileResults: fs.writeFile of results/upload-result.json
SingleSaveResult ==
  /\ spc = "saveResult"
  /\ \E ok \in BOOLEAN :
       IF ok
       THEN /\ singleResults' = Append(singleResults, SingleUploadResult)
            /\ spc' = "saveReadme"
            /\ singleThrown' = singleThrown
       ELSE SingleFails(FsError) /\ singleResults' = singleResults
  /\ UNCHANGED <<singleImages, firstImage, imageCid, metadataCid,
                 singleMetadata, singleReadmes, mainVars>>
  /\ UNCHANGED <<inputVars, fsVars, batchVars, loopVars, staleVars, obsVars>>

\* saveSingleFileResults: fs.writeFile of README.md
SingleSaveReadme ==
  /\ spc = "saveReadme"
  /\ \E ok \in BOOLEAN :
       IF ok
       THEN /\ singleReadmes' = singleReadmes + 1
            /\ spc' = "done"
            /\ singleThrown' = singleThrown
       ELSE SingleFails(FsError) /\ singleReadmes' = singleReadmes
  /\ UNCHANGED <<singleImages, firstImage, imageCid, metadataCid,
                 singleMetadata, singleResults, mainVars>>
  /\ UNCHANGED <<inputVars, fsVars, batchVars, loopVars, staleVars, obsVars>>

\* ------------------------------------------------------------------ main
\* PinataUploader.testAuthentication: what the caller gets when the remote
\* authentication call settles
TestAuthenticationRethrows(outcome) ==
  [threw |-> outcome = "rejected", value |-> TRUE]
TestAuthentication(outcome) ==
  [threw |-> FALSE, value |-> outcome = "resolved"]

\* the catch block: the error is logged and process.exit(1) ends the
\* process, so the finally block does not run
MainCatch(log) ==
  /\ mainLog' = Append(log, "scriptFailed")
  /\ exits' = Append(exits, 1)
  /\ mpc' = "exited"

\* the finally block, reached by a normal completion or by a return
MainFinally(log) ==
  /\ mainLog' = Append(log, "totalTime")
  /\ exits' = Append(exits, 0)
  /\ mpc' = "exited"

\* new ConfigManager(), new PinataUploader(config), and the call of
\* testAuthentication
LoadConfigStep ==
  /\ mpc = "loadConfig"
  /\ IF CredentialsMissing(env)
     THEN MainCatch(mainLog) /\ authCalls' = authCalls
     ELSE /\ mpc' = "auth"
          /\ authCalls' = authCalls + 1
          /\ UNCHANGED <<exits, mainLog>>
  /\ UNCHANGED <<argv, authSuccess, fileCalls, singleVars>>
  /\ UNCHANGED <<inputVars, fsVars, batchVars, loopVars, staleVars, obsVars>>

\* the authentication call settles and main tests authSuccess
AuthSettles ==
  /\ mpc = "auth"
  /\ \E outcome \in {"resolved", "rejected"} :
       LET r == TestAuthentication(outcome)
           log == IF outcome = "rejected"
                  THEN Append(mainLog, "authError") ELSE mainLog
       IN  IF r.threw
           THEN MainCatch(log) /\ authSuccess' = authSuccess
           ELSE /\ authSuccess' = <<r.value>>
                /\ IF r.value
                   THEN mpc' = "dispatch" /\ mainLog' = log /\ exits' = exits
                   ELSE MainFinally(Append(log, "authFailed"))
  /\ UNCHANGED <<argv, authCalls, fileCalls, singleVars>>
  /\ UNCHANGED <<inputVars, fsVars, batchVars, loopVars, staleVars, obsVars>>

\* case "single"
DispatchSingle ==
  /\ mpc = "dispatch"
  /\ CommandOf(argv) = "single"
  /\ mpc' = "single"
  /\ spc' = "start"
  /\ UNCHANGED <<argv, exits, mainLog, authCalls, authSuccess, fileCalls>>
  /\ UNCHANGED <<singleImages, singleThrown, singleData>>
  /\ UNCHANGED <<inputVars, fsVars, batchVars, loopVars, staleVars, obsVars>>

\* case "test": uploadTestFile calls upload.public.file
DispatchTest ==
  /\ mpc = "dispatch"
  /\ CommandOf(argv) = "test"
  /\ mpc' = "test"
  /\ fileCalls' = Append(fileCalls, FileCall("file", <<"test.txt">>))
  /\ UNCHANGED <<argv, exits, mainLog, authCalls, authSuccess, singleVars>>
  /\ UNCHANGED <<inputVars, fsVars, batchVars, loopVars, staleVars, obsVars>>

\* case "pin": without argv[3] an error is logged and main returns,
\* otherwise pinByCid calls upload.public.cid
DispatchPin ==
  /\ mpc = "dispatch"
  /\ CommandOf(argv) = "pin"
  /\ IF ArgMissing(argv.cid)
     THEN MainFinally(Append(mainLog, "cidMissing")) /\ fileCalls' = fileCalls
     ELSE /\ mpc' = "pin"
          /\ fileCalls' = Append(fileCalls, FileCall("cid", <<argv.cid.value>>))
          /\ UNCHANGED <<exits, mainLog>>
  /\ UNCHANGED <<argv, authCalls, authSuccess, singleVars>>
  /\ UNCHANGED <<inputVars, fsVars, batchVars, loopVars, staleVars, obsVars>>

\* case "queue": checkPinQueue asks for the queue status
DispatchQueue ==
  /\ mpc = "dispatch"
  /\ CommandOf(argv) = "queue"
  /\ mpc' = "queue"
  /\ fileCalls' = Append(fileCalls, FileCall("queue", <<>>))
  /\ UNCHANGED <<argv, exits, mainLog, authCalls, authSuccess, singleVars>>
  /\ UNCHANGED <<inputVars, fsVars, batchVars, loopVars, staleVars, obsVars>>

\* default: processBatchCollection is called
DispatchBatch ==
  /\ mpc = "dispatch"
  /\ CommandOf(argv) = "batch"
  /\ mpc' = "batch"
  /\ UNCHANGED <<argv, exits, mainLog, authCalls, authSuccess, fileCalls>>
  /\ UNCHANGED <<singleVars>>
  /\ UNCHANGED <<inputVars, fsVars, batchVars, loopVars, staleVars, obsVars>>

\* the remote call of test, pin or queue settles: the uploader logs the
\* outcome and rethrows a rejection
CommandSettles ==
  /\ mpc \in {"test", "pin", "queue"}
  /\ \/ MainFinally(Append(mainLog, "commandOk"))
     \/ MainCatch(Append(mainLog, "commandError"))
  /\ UNCHANGED <<argv, authCalls, authSuccess, fileCalls, singleVars>>
  /\ UNCHANGED <<inputVars, fsVars, batchVars, loopVars, staleVars, obsVars>>

\* processSingleFile resolved
SingleReturns ==
  /\ mpc = "single"
  /\ spc = "done"
  /\ MainFinally(mainLog)
  /\ UNCHANGED <<argv, authCalls, authSuccess, fileCalls, singleVars>>
  /\ UNCHANGED <<inputVars, fsVars, batchVars, loopVars, staleVars, obsVars>>

\* processSingleFile rejected
SingleThrows ==
  /\ mpc = "single"
  /\ spc = "failed"
  /\ MainCatch(mainLog)
  /\ UNCHANGED <<argv, authCalls, authSuccess, fileCalls, singleVars>>
  /\ UNCHANGED <<inputVars, fsVars, batchVars, loopVars, staleVars, obsVars>>

\* processBatchCollection resolved
BatchReturns ==
  /\ mpc = "batch"
  /\ pc = "done"
  /\ MainFinally(mainLog)
  /\ UNCHANGED <<argv, authCalls, authSuccess, fileCalls, singleVars>>
  /\ UNCHANGED <<inputVars, fsVars, batchVars, loopVars, staleVars, obsVars>>

\* processBatchCollection rejected
BatchThrows ==
  /\ mpc = "batch"
  /\ pc = "failed"
  /\ MainCatch(mainLog)
  /\ UNCHANGED <<argv, authCalls, authSuccess, fileCalls, singleVars>>
  /\ UNCHANGED <<inputVars, fsVars, batchVars, loopVars, staleVars, obsVars>>

Next ==
  \/ LoadConfigStep
  \/ AuthSettles
  \/ DispatchSingle
  \/ DispatchTest
  \/ DispatchPin
  \/ DispatchQueue
  \/ DispatchBatch
  \/ CommandSettles
  \/ SingleCheckDir
  \/ SingleListImages
  \/ SingleReadFile
  \/ SingleImageSettles
  \/ SingleMetadataSettles
  \/ SingleCreateOutputDirs
  \/ SingleSaveResult
  \/ SingleSaveReadme
  \/ SingleReturns
  \/ SingleThrows
  \/ BatchReturns
  \/ BatchThrows
  \/ ValidateInput
  \/ ImagesUploaded
  \/ ImagesUploadThrows
  \/ ListImages
  \/ CreateOutputDirs
  \/ PrepareScratch
  \/ WriteMetadata
  \/ WithSuffixUploaded
  \/ WithSuffixUploadThrows
  \/ WithoutSuffixUploaded
  \/ WithoutSuffixUploadThrows
  \/ CleanupScratch
  \/ SaveResultFile
  \/ SaveReadme
  \/ ReadDirectory
  \/ UploadResolves
  \/ UploadRejects
  \/ TimerFires
  \/ RaceSettled
  \/ SleepDone
  \/ StaleTimerFires
  \/ StaleUploadSettles

Spec == Init /\ [][Next]_vars

\* the timers that are started fire, and the program takes its next step
\* when the promise it awaits is settled; the remote service owes no answer
FairSpec ==
  /\ Init
  /\ [][Next]_vars
  /\ WF_vars(ReadDirectory)
  /\ WF_vars(TimerFires)
  /\ WF_vars(RaceSettled)
  /\ WF_vars(SleepDone)

TypeOK ==
  /\ mpc \in {"loadConfig", "auth", "dispatch", "single", "test", "pin",
              "queue", "batch", "exited"}
  /\ spc \in {"idle", "start", "readdir", "readFile", "uploadImage",
              "uploadMetadata", "createOutput", "saveResult", "saveReadme",
              "done", "failed"}
  /\ Len(exits) <= 1
  /\ pc \in {"validate", "uploadImages", "listImages", "createOutput",
             "prepareScratch", "writeMetadata", "uploadWithSuffix",
             "uploadWithoutSuffix", "cleanup", "saveResult", "saveReadme",
             "done", "failed"}
  /\ upc \in {"idle", "read", "race", "sleep", "returned", "thrown"}
  /\ attempt \in 0..(MaxRetriesBound + 2)

\* ---------------------------------------------------------------- claims
\* number of attempts the loop permits
MaxRetries == IF config.maxRetries.nan THEN 0 ELSE config.maxRetries.val

UploadErrors == {ReadError, RemoteError, TimeoutError}

\* the step of the batch state machine a position belongs to
PhaseOf(p) ==
  CASE p = "validate" -> "ValidatingInput"
    [] p = "uploadImages" -> "UploadingImages"
    [] p \in {"listImages", "createOutput", "prepareScratch",
              "writeMetadata"} -> "GeneratingMetadata"
    [] p \in {"uploadWithSuffix", "uploadWithoutSuffix", "cleanup"} ->
         "UploadingMetadata"
    [] p \in {"saveResult", "saveReadme"} -> "PersistingResults"
    [] p = "done" -> "Done"
    [] p = "failed" -> "Failed"

PhaseOrder == <<"ValidatingInput", "UploadingImages", "GeneratingMetadata",
                "UploadingMetadata", "PersistingResults", "Done">>
PhaseSteps == {<<PhaseOrder[i], PhaseOrder[i + 1]>> : i \in 1..(Len(PhaseOrder) - 1)}

\* every directory upload the run asks for has succeeded
AllUploadsSucceeded ==
  /\ imagesFolderCid \in Cids
  /\ withoutSuffixCid \in Cids
  /\ generateBothVersions => withSuffixCid \in Cids
  /\ uploadOps = <<ImagesInputDir>> \o ScratchDirs
  /\ \A i \in 1..Len(uploadOps) : \E p \in pinned : p.dir = uploadOps[i]

\* C1: in a dual-variant run the with-suffix and the without-suffix metadata
\* files go to two different directories: no two writes of different
\* variants share a directory, and no directory is uploaded twice.
C1_DistinctScratchDirs ==
  generateBothVersions =>
    /\ \A w \in fileWrites : \A v \in fileWrites :
         w.variant # v.variant => w.dir # v.dir
    /\ \A i \in 1..Len(uploadOps) : \A j \in 1..Len(uploadOps) :
         i # j => uploadOps[i] # uploadOps[j]
    /\ \A p \in pinned : \A w \in fileWrites : \A v \in fileWrites :
         (w.dir = p.dir /\ v.dir = p.dir) => w.variant = v.variant

C1_Witness ==
  /\ generateBothVersions
  /\ pc = "cleanup"
  /\ Len(imageFiles) = 2
  /\ Cardinality(fileWrites) = 4
  /\ uploadOps = <<ImagesInputDir, MetadataWithSuffixDir,
                   MetadataWithoutSuffixDir>>

\* C2: once the metadata upload step has finished, by success or by a
\* failed upload, every scratch directory of the run is removed (unless its
\* removal itself failed and was logged).
C2_ScratchDirsRemoved ==
  (\/ pc \in {"saveResult", "saveReadme", "done"}
   \/ pc = "failed" /\ Len(uploadOps) >= 2)
    => \A d \in Range(ScratchDirs) : d \notin fsDirs \/ d \in cleanupFailed

C4_SleepsBetweenAttempts ==
  /\ upc = "returned" =>
       /\ attempt \in 1..MaxRetries
       /\ \E p \in pinned : p.dir = dirPath /\ p.cid = upResult
       /\ failures = attempt - 1
       /\ sleeps = attempt - 1
       /\ remoteCalls + readFailures = attempt
  /\ upc = "sleep" => (sleeps = failures /\ failures = attempt
                         /\ attempt < MaxRetries)
  /\ upc \in {"read", "race"} => (sleeps = attempt - 1 /\ failures = attempt - 1)
  /\ (upc = "thrown" /\ MaxRetries >= 1) =>
       (sleeps = MaxRetries - 1 /\ failures = MaxRetries)

C4_Witness ==
  /\ upc = "returned"
  /\ MaxRetries = 3
  /\ attempt = 3
  /\ sleeps = 2
  /\ upResult \in Cids

\* C5: when the race of an attempt is settled by the timeout, the attempt
\* is handled as a rejected upload is: it is counted as a failed attempt,
\* its error becomes the last error, and the call sleeps and retries if
\* attempts remain and fails otherwise.
C5_TimeoutCountsAsFailure ==
  [][\A e \in {TimeoutError, RemoteError} :
       (upc = "race" /\ race.state = "rejected" /\ race.value = e
          /\ race' = NoRace) =>
         /\ failures' = failures + 1
         /\ lastError' = e
         /\ IF attempt < MaxRetries
            THEN upc' = "sleep" /\ attempt' = attempt /\ sleeps' = sleeps + 1
            ELSE upc' = "thrown" /\ sleeps' = sleeps]_vars

C5_Witness ==
  /\ upc = "sleep"
  /\ lastError = TimeoutError
  /\ failedWith = TimeoutError
  /\ failures = attempt

\* C6: with timers that fire, a call of uploadDirectoryWithRetry that is
\* under way ends (returns or throws) even if the remote service never
\* answers, and never makes more than maxRetries attempts.
C6_UploadTerminates ==
  /\ [](remoteCalls + readFailures <= MaxRetries)
  /\ (upc \in {"read", "race", "sleep"}) ~> (upc \in {"returned", "thrown"})

C6_Witness ==
  /\ upc = "thrown"
  /\ MaxRetries = 2
  /\ remoteCalls = 2
  /\ lastError = TimeoutError
  /\ staleUploads > 0

\* C7: the run moves through its steps in the order ValidatingInput,
\* UploadingImages, GeneratingMetadata, UploadingMetadata, PersistingResults,
\* Done; a step is left for the next one only with its result in hand, Done
\* is entered only with both result files written, a failure leads to
\* Failed, and nothing is done after Failed.
C7_StepOrder ==
  /\ [][/\ PhaseOf(pc') # PhaseOf(pc) =>
            \/ <<PhaseOf(pc), PhaseOf(pc')>> \in PhaseSteps
            \/ PhaseOf(pc') = "Failed" /\ PhaseOf(pc) # "Done"
        /\ PhaseOf(pc) = "Failed" =>
            /\ pc' = pc
            /\ upc' = "idle"
            /\ UNCHANGED <<fsVars, batchData, thrown, uploadOps, pinned>>
        /\ (pc = "uploadImages" /\ pc' = "listImages") =>
            imagesFolderCid' \in Cids
        /\ (pc = "uploadWithSuffix" /\ pc' = "uploadWithoutSuffix") =>
            withSuffixCid' \in Cids
        /\ (pc = "uploadWithoutSuffix" /\ pc' = "cleanup") =>
            withoutSuffixCid' \in Cids
        /\ (pc # "done" /\ pc' = "done") =>
            (Len(resultWrites') = 1 /\ readmeWrites' = 1)]_vars
  /\ [](thrown # NotThrown <=> pc = "failed")
  /\ [](pc \in {"saveResult", "saveReadme", "done"} => AllUploadsSucceeded)

C7_Witness ==
  /\ pc = "done"
  /\ generateBothVersions
  /\ Len(uploadOps) = 3
  /\ Len(resultWrites) = 1
  /\ readmeWrites = 1

\* C8: when the image input directory does not exist the run fails before
\* any upload is started and before any directory or file is created.
C8_MissingInputDir ==
  ImagesInputDir \notin fsDirs =>
    /\ pc \in {"validate", "failed"}
    /\ pc = "failed" => thrown = InputDirMissing
    /\ upc = "idle"
    /\ uploadOps = <<>>
    /\ remoteCalls = 0
    /\ pinned = {}
    /\ fsDirs = {}
    /\ fsFiles = {}
    /\ fileWrites = {}
    /\ resultWrites = <<>>
    /\ readmeWrites = 0

C8_Witness ==
  /\ ImagesInputDir \notin fsDirs
  /\ pc = "failed"
  /\ thrown = InputDirMissing

\* C9: as long as the image folder has no identifier the run is validating,
\* uploading the images, or failed: no image is listed, no metadata file or
\* scratch directory exists and no metadata upload was started; a rejected
\* image upload ends the run in Failed.
C9_NoMetadataWithoutImages ==
  imagesFolderCid = NULL =>
    /\ pc \in {"validate", "uploadImages", "failed"}
    /\ imageFiles = <<>>
    /\ fileWrites = {}
    /\ Range(ScratchDirs) \cap fsDirs = {}
    /\ OutputDir \notin fsDirs
    /\ Len(uploadOps) <= 1
    /\ \A p \in pinned : p.dir = ImagesInputDir
    /\ (pc = "failed" /\ uploadOps # <<>>) => thrown \in UploadErrors \cup {NULL}

C9_Witness ==
  /\ pc = "failed"
  /\ imagesFolderCid = NULL
  /\ uploadOps = <<ImagesInputDir>>
  /\ thrown = TimeoutError
  /\ MaxRetries = 2

\* C10: upload-result.json and README.md are each written at most once, and
\* only after every directory upload of the run succeeded; a run whose
\* directory upload failed has written neither.
C10_ResultsOnlyAfterUploads ==
  /\ Len(resultWrites) <= 1
  /\ readmeWrites <= 1
  /\ readmeWrites > 0 => resultWrites # <<>>
  /\ resultWrites # <<>> => AllUploadsSucceeded
  /\ (pc = "failed" /\ thrown \in UploadErrors \cup {NULL}) =>
       (resultWrites = <<>> /\ readmeWrites = 0)
  /\ (upc = "thrown") => (resultWrites = <<>> /\ readmeWrites = 0)

C10_Witness ==
  /\ pc = "done"
  /\ ~generateBothVersions
  /\ Len(resultWrites) = 1
  /\ readmeWrites = 1
  /\ resultWrites[1].metadataWithoutSuffixCid \in Cids

\* ------------------------------------------------------- claims C11..C20
\* the recognized images of the batch input directory
RecognizedImages == SelectSeq(batchImages, IsImage)

\* the write loop of the batch run has completed
WritesDone ==
  pc \in {"uploadWithSuffix", "uploadWithoutSuffix", "cleanup", "saveResult",
          "saveReadme", "done"}

\* names of the files the write loop produced in directory d
WrittenNames(d) == {w.name : w \in {v \in fileWrites : v.dir = d}}

\* C11: with N recognized images a dual-variant run whose write loop has
\* completed has made 2*N metadata writes and each of the two scratch
\* directories received N distinct files; a completed run uploaded each
\* scratch directory once, after the images, and recorded for each the
\* identifier the service returned for it.
C11_DualWritesAndUploads ==
  (generateBothVersions /\ WritesDone) =>
    /\ Cardinality(fileWrites) = 2 * Len(RecognizedImages)
    /\ \A d \in Range(ScratchDirs) :
         Cardinality(WrittenNames(d)) = Len(RecognizedImages)
    /\ pc = "done" =>
         /\ uploadOps = <<ImagesInputDir, MetadataWithSuffixDir,
                          MetadataWithoutSuffixDir>>
         /\ \E p \in pinned :
              p.dir = MetadataWithSuffixDir /\ p.cid = withSuffixCid
         /\ \E p \in pinned :
              p.dir = MetadataWithoutSuffixDir /\ p.cid = withoutSuffixCid

\* the suffix the environment configures: empty when METADATA_SUFFIX is set
\* to the empty string, otherwise the suffix of the loaded configuration
ConfiguredSuffix ==
  IF env.METADATA_SUFFIX.defined /\ env.METADATA_SUFFIX.value = <<>>
  THEN <<>> ELSE config.metadataSuffix

\* C12: in a single-variant batch run every metadata file written is named
\* by the token identifier followed by the configured suffix (no suffix when
\* the configured suffix is empty).
C12_SuffixFromConfig ==
  ~generateBothVersions =>
    \A w \in fileWrites : w.name = ParseName(w.source) \o ConfiguredSuffix

\* the identifier the remote service returned for the upload of directory d
\* is cid: it answered for d, and never with anything else
ReturnedFor(d, cid) ==
  /\ \E p \in pinned : p.dir = d
  /\ \A p \in pinned : p.dir = d => p.cid = cid

\* C13: every result record written by a batch run carries the identifier
\* returned for the image directory, the number of recognized images, the
\* identifier returned for the without-suffix directory, and the identifier
\* returned for the with-suffix directory in a dual-variant run, which is
\* unset in a single-variant run.
C13_ResultRecord ==
  \A i \in 1..Len(resultWrites) :
    LET r == resultWrites[i]
    IN  /\ ReturnedFor(ImagesInputDir, r.imagesFolderCid)
        /\ r.imageCount = Len(RecognizedImages)
        /\ ReturnedFor(MetadataWithoutSuffixDir, r.metadataWithoutSuffixCid)
        /\ IF generateBothVersions
           THEN ReturnedFor(MetadataWithSuffixDir, r.metadataWithSuffixCid)
           ELSE /\ r.metadataWithSuffixCid = UNDEFINED
                /\ \A p \in pinned : p.dir # MetadataWithSuffixDir

C13_Witness ==
  /\ pc = "done"
  /\ generateBothVersions
  /\ Len(resultWrites) = 1
  /\ resultWrites[1].imageCount = 2
  /\ resultWrites[1].metadataWithSuffixCid = "cidA"
  /\ resultWrites[1].metadataWithoutSuffixCid = "cidB"

\* C14: the image directory is the first directory uploaded and is uploaded
\* by one operation only; a completed default run has made exactly three
\* directory uploads (images, with-suffix, without-suffix metadata), a
\* completed --no-suffix run exactly two (images, without-suffix metadata),
\* and a --no-suffix run never creates, writes into or uploads the
\* with-suffix metadata directory.
C14_UploadOperations ==
  /\ uploadOps # <<>> =>
       /\ uploadOps[1] = ImagesInputDir
       /\ \A i \in 2..Len(uploadOps) : uploadOps[i] # ImagesInputDir
  /\ pc = "done" =>
       uploadOps = IF argv.noSuffix
                   THEN <<ImagesInputDir, MetadataWithoutSuffixDir>>
                   ELSE <<ImagesInputDir, MetadataWithSuffixDir,
                          MetadataWithoutSuffixDir>>
  /\ argv.noSuffix =>
       /\ MetadataWithSuffixDir \notin fsDirs
       /\ \A w \in fileWrites : w.dir = MetadataWithoutSuffixDir
       /\ \A f \in fsFiles : f.dir # MetadataWithSuffixDir
       /\ \A i \in 1..Len(uploadOps) : uploadOps[i] # MetadataWithSuffixDir

C14_Witness ==
  /\ mpc = "exited"
  /\ pc = "done"
  /\ argv.mode = Arg("--no-suffix")
  /\ Len(uploadOps) = 2
  /\ Cardinality(fileWrites) = 2
  /\ exits = <<0>>

\* main logged event e
Logged(e) == \E i \in 1..Len(mainLog) : mainLog[i] = e

\* the command the run selected ran to completion
CommandCompleted ==
  CASE CommandOf(argv) = "batch" -> pc = "done"
    [] CommandOf(argv) = "single" -> spc = "done"
    [] OTHER -> Logged("commandOk")

\* C15: a run in which authentication failed, or in which pin was given no
\* identifier, has logged an error and exits with a non-zero code; a run
\* exits with code 0 only if its command completed successfully.
C15_FailureExitsNonZero ==
  \A i \in 1..Len(exits) :
    /\ (Logged("authFailed") \/ Logged("cidMissing")) => exits[i] # 0
    /\ exits[i] = 0 => CommandCompleted

\* C16: whenever the process exits, the total elapsed run time has been
\* logged.
C16_TotalTimeLogged ==
  exits # <<>> => Logged("totalTime")

\* a required credential is not in the environment (or is empty)
RequiredCredentialAbsent ==
  \E k \in {"PINATA_JWT", "PINATA_GATEWAY"} :
     ~env[k].defined \/ env[k].value = <<>>

\* C17: when the JWT or the gateway is missing from the environment, the run
\* makes no authentication call, no upload, pin or queue call and no
\* attempt of the retry loop, starts no command, and when it has exited the
\* exit code is 1.
C17_MissingCredential ==
  RequiredCredentialAbsent =>
    /\ authCalls = 0
    /\ fileCalls = <<>>
    /\ uploadOps = <<>>
    /\ pinned = {}
    /\ attempt = 0 /\ remoteCalls = 0 /\ sleeps = 0
    /\ pc = "validate" /\ spc = "idle"
    /\ mpc \in {"loadConfig", "exited"}
    /\ mpc = "exited" => (exits = <<1>> /\ Logged("scriptFailed"))

C17_Witness ==
  /\ env.PINATA_JWT.defined
  /\ ~env.PINATA_GATEWAY.defined
  /\ mpc = "exited"
  /\ exits = <<1>>

\* C18: once the authentication call has settled, main holds a boolean
\* result (testAuthentication did not throw), which is false exactly when
\* the remote call failed; after a false result no upload, pin or queue
\* operation is made and no command starts.
C18_AuthenticateReturnsBoolean ==
  /\ (authCalls > 0 /\ mpc # "auth") => authSuccess \in {<<TRUE>>, <<FALSE>>}
  /\ mpc \in {"loadConfig", "auth"} => authSuccess = <<>>
  /\ Logged("authError") <=> authSuccess = <<FALSE>>
  /\ authSuccess = <<FALSE>> =>
       /\ mpc = "exited"
       /\ fileCalls = <<>>
       /\ uploadOps = <<>>
       /\ pinned = {}
       /\ remoteCalls = 0
       /\ pc = "validate" /\ spc = "idle"

C18_Witness ==
  /\ authCalls = 1
  /\ authSuccess = <<FALSE>>
  /\ Logged("authError")
  /\ mpc = "exited"

C20_SingleItemFlow ==
  CommandOf(argv) = "single" =>
    LET images == SelectSeq(singleImages, IsImage)
    IN  /\ Len(fileCalls) <= 2
        /\ uploadOps = <<>> /\ remoteCalls = 0 /\ attempt = 0 /\ sleeps = 0
        /\ Len(fileCalls) >= 1 =>
             (images # <<>> /\ fileCalls[1] = FileCall("file", images[1]))
        /\ Len(fileCalls) = 2 =>
             /\ imageCid \in Cids
             /\ fileCalls[2] =
                  FileCall("file", MetadataFileName(ParseName(images[1])))
        /\ images = <<>> =>
             (fileCalls = <<>> /\ spc \in {"idle", "start", "readdir", "failed"})
        /\ (imageCid = NULL /\ spc = "failed") => Len(fileCalls) <= 1
        /\ (metadataCid \in Cids) => Len(fileCalls) = 2
        /\ metadataCid = NULL => singleResults = <<>>
        /\ Len(singleResults) <= 1
        /\ \A i \in 1..Len(singleResults) :
             /\ imageCid \in Cids /\ metadataCid \in Cids
             /\ singleResults[i].imageCid = imageCid
             /\ singleResults[i].metadataCid = metadataCid
             /\ singleResults[i].metadata[3] =
                  [key |-> "image", value |-> <<"ipfs://", imageCid>>]

C20_Witness ==
  /\ mpc = "exited"
  /\ spc = "done"
  /\ Len(fileCalls) = 2
  /\ Len(singleResults) = 1
  /\ firstImage = Png2
  /\ imageCid = "cidA"
  /\ metadataCid = "cidB"

\* ------------------------------------------------------- claims C21..C25
\* C21: once the configuration is loaded, its metadata suffix is the value
\* of METADATA_SUFFIX whenever that variable is set (the empty string
\* included), and the default .json only when the variable is not set.
C21_SuffixCarriedUnchanged ==
  (mpc # "loadConfig" /\ authCalls > 0) =>
    config.metadataSuffix =
      IF env.METADATA_SUFFIX.defined
      THEN env.METADATA_SUFFIX.value ELSE DefaultSuffix

\* the values the uploader and its caller can observe
ObservedByCall == <<loopVars, obsVars, batchVars, fsVars>>

\* C22: an attempt that times out abandons its upload; a step in which an
\* abandoned upload settles changes nothing the call or its caller can
\* observe; the race of an attempt is settled only from "pending", by the
\* answer to this attempt's upload or by this attempt's timer; and the
\* value the call returns is the identifier the service answered with for
\* this directory in the attempt that resolved.
C22_AbandonedUploadDiscarded ==
  [][
    /\ (race.state = "pending" /\ race'.state = "rejected"
          /\ race'.value = TimeoutError) =>
         staleUploads' = Abandon(staleUploads)
    /\ staleUploads' < staleUploads => UNCHANGED ObservedByCall
    /\ (race'.state \in {"resolved", "rejected"} /\ race' # race) =>
         /\ upc = "race" /\ race.state = "pending"
         /\ staleUploads' >= staleUploads
         /\ race'.state = "resolved" =>
              [dir |-> dirPath, names |-> race.files, cid |-> race'.value]
                \in pinned' \ pinned
    /\ (upc' = "returned" /\ upc # "returned") =>
         /\ race.state = "resolved"
         /\ upResult' = race.value
         /\ \E p \in pinned : p.dir = dirPath /\ p.cid = upResult'
  ]_vars

\* a call returned the identifier of its second attempt while the upload
\* abandoned by the timed-out first attempt is still outstanding
C22_Witness ==
  /\ upc = "returned"
  /\ attempt = 2
  /\ failures = 1
  /\ failedWith = TimeoutError
  /\ staleUploads > 0
  /\ upResult \in Cids

\* upload calls and timeout timers that are outstanding: those of the race
\* being awaited and those left behind by settled races
PendingUploads == (IF race.state = "pending" THEN 1 ELSE 0) + staleUploads
PendingTimers == (IF race.state = "pending" THEN 1 ELSE 0) + staleTimers

\* C23 as stated: at most one folder-upload call and at most one timeout
\* timer are outstanding at any moment.
C23_Original ==
  /\ PendingUploads <= 1
  /\ PendingTimers <= 1

\* C23 amended: at most one race of an upload call against a timer is
\* awaited at a time. A remote call is made, and a race started, only when
\* no race is awaited; the upload of a directory starts only when the
\* previous call has returned; outside an attempt no race exists. Timers
\* and upload calls left behind by settled races may be outstanding
\* meanwhile, and exist only once a directory upload has been started.
C23_OneAwaitedRace ==
  /\ [](upc # "race" => race = NoRace)
  /\ [](upc = "race" => race.state \in {"pending", "resolved", "rejected"})
  /\ []((staleTimers > 0 \/ staleUploads > 0) => uploadOps # <<>>)
  /\ [][
       /\ remoteCalls' > remoteCalls =>
            (upc = "read" /\ race = NoRace /\ race'.state = "pending")
       /\ (race'.state = "pending" /\ race.state # "pending") =>
            (upc = "read" /\ remoteCalls' = remoteCalls + 1)
       /\ Len(uploadOps') > Len(uploadOps) =>
            (upc \in {"idle", "returned"} /\ race = NoRace)
     ]_vars

\* a second attempt is racing while the timer of the first attempt (whose
\* upload was rejected) has not fired yet
C23_Witness ==
  /\ upc = "race"
  /\ race.state = "pending"
  /\ attempt = 2
  /\ failedWith = RemoteError
  /\ staleTimers > 0

\* C24: whenever uploadDirectoryWithRetry fails, at least one attempt was
\* made and the value thrown is the error of an attempt (a read, upload or
\* timeout error), never null.
C24_FailsWithAttemptError ==
  upc = "thrown" =>
    /\ failures >= 1
    /\ lastError \in UploadErrors
    /\ lastError # NULL

\* the names the remote service received for directory d
UploadedNames(d) == UNION {p.names : p \in {q \in pinned : q.dir = d}}

\* C25: every file name in the per-token mapping of a batch result record
\* was written to the scratch directory of its variant and was among the
\* files uploaded from that directory.
C25_RecordedFilesExist ==
  \A i \in 1..Len(resultWrites) :
    \A j \in 1..Len(resultWrites[i].metadataFiles) :
      LET m == resultWrites[i].metadataFiles[j]
      IN  /\ m.metadataFileWithoutSuffix \in
               WrittenNames(MetadataWithoutSuffixDir)
          /\ m.metadataFileWithoutSuffix \in
               UploadedNames(MetadataWithoutSuffixDir)
          /\ m.metadataFileWithSuffix \in WrittenNames(MetadataWithSuffixDir)
          /\ m.metadataFileWithSuffix \in UploadedNames(MetadataWithSuffixDir)
====
